---- MODULE Spec2Model ----
(***************************************************************************)
(* Model of the propaganda analysis server (server/app.py,                *)
(* server/utils.py): one POST /analyze request at a time, from the        *)
(* arrival of the request body to the HTTP response, with the content     *)
(* extraction collaborator (trafilatura) and the AI collaborator (Gemini) *)
(* as the environment.                                                    *)
(*                                                                         *)
(* Text is modelled as a sequence of whitespace-delimited tokens that are *)
(* joined by single spaces; the token WS is a further whitespace          *)
(* character (a newline).  All other tokens of the vocabulary are purely  *)
(* alphabetic, so a \b-bounded pattern matches exactly at token           *)
(* boundaries.  Python's None is the record None; JSON values are tagged  *)
(* records.                                                                *)
(***************************************************************************)
EXTENDS Integers, Sequences, FiniteSets, TLC

VARIABLES
    pc,            \* where the request handler is
    api_key,       \* whether GEMINI_API_KEY is set in the environment
    request,       \* request.get_json() of the request being handled
    fetch_result,  \* what the extraction collaborator answered
    article,       \* article_content in analyze_article
    scoring,       \* the pattern-analysis locals of analyze_propaganda
    gemini_reply,  \* what model.generate_content did
    ai_analysis,   \* the value analyze_with_gemini returned
    response       \* the HTTP response of analyze_article

vars == <<pc, api_key, request, fetch_result, article, scoring,
          gemini_reply, ai_analysis, response>>

None == [t |-> "none"]

Min(a, b) == IF a < b THEN a ELSE b
Max(a, b) == IF a > b THEN a ELSE b

\* ---------------------------------------------------------------------------
\* IEEE-754 binary64 arithmetic, as far as the two score formulas use it.
\* A float is [m |-> limbs, e |-> exponent]: m is the 53-bit significand as a
\* sequence of 15-bit limbs, least significant first, and the value is
\* m * 2^e.  Zero has m = <<>>.  Every operation computes the exact result and
\* rounds it to nearest, ties to even, as CPython's float operations do.
\* ---------------------------------------------------------------------------
MantBits == 53
LimbBits == 15
Base == 32768
DivFracLimbs == 5

Zeros(n) == [i \in 1..n |-> 0]

RECURSIVE ToLimbs(_)
ToLimbs(n) == IF n = 0 THEN <<>> ELSE <<n % Base>> \o ToLimbs(n \div Base)

RECURSIVE FromLimbs(_)
FromLimbs(L) == IF L = <<>> THEN 0 ELSE Head(L) + Base * FromLimbs(Tail(L))

RECURSIVE StripTop(_)
StripTop(L) ==
    IF L = <<>> THEN <<>>
    ELSE IF L[Len(L)] # 0 THEN L
    ELSE StripTop(SubSeq(L, 1, Len(L) - 1))

RECURSIVE MulLimbs(_, _, _)
MulLimbs(L, k, c) ==
    IF L = <<>> THEN ToLimbs(c)
    ELSE LET v == Head(L) * k + c
         IN  <<v % Base>> \o MulLimbs(Tail(L), k, v \div Base)

RECURSIVE AddLimbs(_, _, _)
AddLimbs(a, b, c) ==
    IF a = <<>> /\ b = <<>> THEN ToLimbs(c)
    ELSE LET x == IF a = <<>> THEN 0 ELSE Head(a)
             y == IF b = <<>> THEN 0 ELSE Head(b)
             v == x + y + c
         IN  <<v % Base>> \o AddLimbs(IF a = <<>> THEN <<>> ELSE Tail(a),
                                      IF b = <<>> THEN <<>> ELSE Tail(b),
                                      v \div Base)

BitLen(x) == CHOOSE k \in 0..LimbBits : x < 2^k /\ (k = 0 \/ x >= 2^(k - 1))

NumBits(L) == IF L = <<>> THEN 0 ELSE LimbBits * (Len(L) - 1) + BitLen(L[Len(L)])

ShiftL(L, s) == Zeros(s \div LimbBits) \o MulLimbs(L, 2^(s % LimbBits), 0)

ShiftR(L, s) ==
    LET q == s \div LimbBits
        r == s % LimbBits
        n == Len(L)
    IN  IF n <= q THEN <<>>
        ELSE StripTop([i \in 1..(n - q) |->
                 (L[i + q] \div 2^r)
                 + (IF i + q < n THEN (L[i + q + 1] % 2^r) * 2^(LimbBits - r) ELSE 0)])

BitAt(L, j) ==
    IF j \div LimbBits + 1 > Len(L) THEN 0
    ELSE (L[j \div LimbBits + 1] \div 2^(j % LimbBits)) % 2

LowZero(L, s) ==
    /\ \A i \in 1..Len(L) : i <= s \div LimbBits => L[i] = 0
    /\ s \div LimbBits < Len(L) => L[s \div LimbBits + 1] % 2^(s % LimbBits) = 0

FZero == [m |-> <<>>, e |-> 0]

Round53(L, e) ==
    LET n == NumBits(L)
    IN  IF n = 0 THEN FZero
        ELSE IF n <= MantBits
        THEN [m |-> ShiftL(L, MantBits - n), e |-> e - (MantBits - n)]
        ELSE LET drop   == n - MantBits
                 kept   == ShiftR(L, drop)
                 guard  == BitAt(L, drop - 1)
                 sticky == ~LowZero(L, drop - 1)
                 up     == guard = 1 /\ (sticky \/ kept[1] % 2 = 1)
                 m1     == IF up THEN AddLimbs(kept, <<1>>, 0) ELSE kept
             IN  IF NumBits(m1) > MantBits
                 THEN [m |-> ShiftR(m1, 1), e |-> e + drop + 1]
                 ELSE [m |-> m1, e |-> e + drop]

RECURSIVE DivLimbs(_, _, _)
DivLimbs(r, w, n) ==
    IF n = 0 THEN <<>>
    ELSE DivLimbs((r * Base) % w, w, n - 1) \o <<(r * Base) \div w>>

RECURSIVE DivRem(_, _, _)
DivRem(r, w, n) == IF n = 0 THEN r ELSE DivRem((r * Base) % w, w, n - 1)

FloatDiv(t, w) ==
    LET sticky == IF DivRem(t % w, w, DivFracLimbs) = 0 THEN 0 ELSE 1
        limbs  == <<sticky>> \o DivLimbs(t % w, w, DivFracLimbs) \o ToLimbs(t \div w)
    IN  Round53(StripTop(limbs), 0 - LimbBits * (DivFracLimbs + 1))

FloatMulInt(x, k) ==
    IF x.m = <<>> \/ k = 0 THEN FZero
    ELSE Round53(MulLimbs(x.m, k, 0), x.e)

FloatAdd(x, y) ==
    IF x.m = <<>> THEN y
    ELSE IF y.m = <<>> THEN x
    ELSE LET e == IF x.e < y.e THEN x.e ELSE y.e
         IN  Round53(AddLimbs(ShiftL(x.m, x.e - e), ShiftL(y.m, y.e - e), 0), e)

FloatTrunc(x) ==
    IF x.m = <<>> \/ 0 - x.e >= MantBits THEN 0
    ELSE FromLimbs(ShiftR(x.m, 0 - x.e))

F04 == FloatDiv(2, 5)     \* the literal 0.4
F06 == FloatDiv(3, 5)     \* the literal 0.6

\* ---------------------------------------------------------------------------
\* Text: tokens, lower-casing, character offsets.
\* ---------------------------------------------------------------------------
WS == "\n"
Filler == "the"
Vocab == {"the", "shocking", "Crisis", "everyone", "knows", "vs.them", WS}

\* str.lower() on a token
LowerOf(tok) == IF tok = "Crisis" THEN "crisis" ELSE tok

\* len() of a token
TokLen(tok) == Len(tok)

Count(toks, n, tok) == Cardinality({j \in 1..n : toks[j] = tok})

RECURSIVE SumLen(_, _, _)
SumLen(S, toks, n) ==
    IF S = {} THEN 0
    ELSE LET tok == CHOOSE x \in S : TRUE
         IN  TokLen(tok) * Count(toks, n, tok) + SumLen(S \ {tok}, toks, n)

\* the character offset at which token i starts (tokens joined by one space)
Offset(toks, i) == SumLen({toks[j] : j \in 1..(i - 1)}, toks, i - 1) + (i - 1)

\* len(text)
CharLen(toks) == IF toks = <<>> THEN 0 ELSE Offset(toks, Len(toks) + 1) - 1

\* str.strip(): drop the whitespace at both ends
Strip(toks) ==
    LET n     == Len(toks)
        lead  == CHOOSE m \in 0..n :
                    /\ \A j \in 1..m : toks[j] = WS
                    /\ m = n \/ toks[m + 1] # WS
        trail == CHOOSE m \in 0..n :
                    /\ \A j \in (n - m + 1)..n : toks[j] = WS
                    /\ m = n \/ toks[n - m] # WS
    IN  IF lead = n THEN <<>> ELSE SubSeq(toks, lead + 1, n - trail)

\* len(text.split())
WordCount(toks) == Cardinality({j \in 1..Len(toks) : toks[j] # WS})

Repeat(tok, n) == [i \in 1..n |-> tok]

\* ---------------------------------------------------------------------------
\* propaganda_indicators: the categories in declaration order, each with its
\* alternatives in the order of the regular expression.  An alternative is
\* the sequence of its space-separated words.
\* ---------------------------------------------------------------------------
propaganda_indicators == <<
    [name |-> "emotional_language",
     alts |-> << <<"shocking">>, <<"outrageous">>, <<"terrible">>, <<"amazing">>,
                 <<"incredible">>, <<"horrific">>, <<"devastating">>,
                 <<"mind-blowing">> >>],
    [name |-> "absolutist_terms",
     alts |-> << <<"always">>, <<"never">>, <<"everyone">>, <<"nobody">>, <<"all">>,
                 <<"none">>, <<"every", "single">>, <<"absolutely">> >>],
    [name |-> "unverified_claims",
     alts |-> << <<"sources", "say">>, <<"reportedly">>, <<"allegedly">>,
                 <<"claims">>, <<"according", "to", "some">>, <<"many", "believe">>,
                 <<"experts", "suggest">> >>],
    [name |-> "loaded_words",
     alts |-> << <<"regime">>, <<"puppet">>, <<"radical">>, <<"extremist">>,
                 <<"terrorist">>, <<"freedom", "fighter">>, <<"patriot">>,
                 <<"traitor">> >>],
    [name |-> "fear_mongering",
     alts |-> << <<"crisis">>, <<"catastrophe">>, <<"disaster">>, <<"threat">>,
                 <<"danger">>, <<"emergency">>, <<"chaos">>, <<"collapse">> >>],
    [name |-> "oversimplification",
     alts |-> << <<"simply">>, <<"obviously">>, <<"clearly">>, <<"undoubtedly">>,
                 <<"without", "question">>, <<"naturally">> >>],
    [name |-> "ad_hominem",
     alts |-> << <<"stupid">>, <<"ignorant">>, <<"foolish">>, <<"incompetent">>,
                 <<"corrupt">>, <<"evil">>, <<"wicked">> >>],
    [name |-> "bandwagon",
     alts |-> << <<"everyone", "knows">>, <<"popular", "opinion">>,
                 <<"majority", "believes">>, <<"trending">>, <<"viral">>,
                 <<"mainstream">> >>],
    [name |-> "false_dichotomy",
     alts |-> << <<"either">>, <<"or">>, <<"versus">>, <<"vs.">>, <<"against">>,
                 <<"choose", "between">> >>],
    [name |-> "conspiracy_terms",
     alts |-> << <<"conspiracy">>, <<"cover-up">>, <<"secret", "agenda">>,
                 <<"hidden", "truth">>, <<"real", "story">>,
                 <<"what", "they", "don't", "want", "you", "to", "know">> >>] >>

ContextWidth == 50

\* \w of the regular expressions, on lower-cased text
WordChars ==
    {"a", "b", "c", "d", "e", "f", "g", "h", "i", "j", "k", "l", "m", "n", "o",
     "p", "q", "r", "s", "t", "u", "v", "w", "x", "y", "z", "0", "1", "2", "3",
     "4", "5", "6", "7", "8", "9", "_"}

IsWordChar(s, n) == SubSeq(s, n, n) \in WordChars

\* the closing \b after the first n characters of token tok: exactly one of
\* the characters on its two sides is a word character (the end of the
\* token is followed by whitespace or by the end of the text)
BoundaryAfter(tok, n) ==
    IsWordChar(tok, n) # (n < Len(tok) /\ IsWordChar(tok, n + 1))

\* word `word` of an alternative opens token tok
StartsWith(tok, word) ==
    Len(word) <= Len(tok) /\ SubSeq(tok, 1, Len(word)) = word

\* alternative alt matches the lower-cased text at the start of token i: its
\* words but the last are whole tokens, the last one ends at a word
\* boundary, at the end of its token or inside it.  Every alternative opens
\* with a word character, so the opening \b holds at the start of a token.
MatchAt(toks, i, alt) ==
    LET n == Len(alt)
    IN  /\ i + n - 1 <= Len(toks)
        /\ \A j \in 1..(n - 1) : LowerOf(toks[i + j - 1]) = alt[j]
        /\ LET last == LowerOf(toks[i + n - 1])
           IN  StartsWith(last, alt[n]) /\ BoundaryAfter(last, Len(alt[n]))

\* the first alternative of the pattern that matches at token i, or 0
AltAt(alts, toks, i) ==
    LET matching == {k \in 1..Len(alts) : MatchAt(toks, i, alts[k])}
    IN  IF matching = {} THEN 0
        ELSE CHOOSE k \in matching : \A h \in matching : k <= h

\* the words an alternative of the pattern can start with; FindIter looks
\* for a match only at the tokens that one of them opens
FirstWords(alts) == {alts[k][1] : k \in 1..Len(alts)}

\* the tokens from token `from` on at which an alternative of the pattern
\* matches
Hits(alts, toks, from) ==
    LET cand == {tok \in {toks[j] : j \in from..Len(toks)} :
                    \E w \in FirstWords(alts) : StartsWith(LowerOf(tok), w)}
    IN  {i \in from..Len(toks) : toks[i] \in cand /\ AltAt(alts, toks, i) # 0}

\* lines 138-148: a match of alternative alt at token i, with its context
\* window and position
Match(toks, i, alt) ==
    [matched_text |-> alt,
     context  |-> [from |-> Max(0, Offset(toks, i) - ContextWidth),
                   to   |-> Min(CharLen(toks),
                                Offset(toks, i) + CharLen(alt) + ContextWidth)],
     position |-> Offset(toks, i)]

\* re.finditer(pattern, text.lower()) from token `from` on (line 133): the
\* leftmost match, then the matches after its end.  A match starts where a
\* token starts; what is left of a token after a match inside it (the word
\* after "vs.") is a word of no alternative.
RECURSIVE FindIter(_, _, _)
MatchThenRest(alts, toks, i, alt) ==
    <<Match(toks, i, alt)>> \o FindIter(alts, toks, i + Len(alt))

LeftmostMatch(alts, toks, i) ==
    MatchThenRest(alts, toks, i, alts[AltAt(alts, toks, i)])

FindIter(alts, toks, from) ==
    LET hits == Hits(alts, toks, from)
    IN  IF hits = {} THEN <<>>
        ELSE LeftmostMatch(alts, toks, CHOOSE h \in hits : \A g \in hits : h <= g)

\* ---------------------------------------------------------------------------
\* analyze_propaganda, first half: the pattern analysis (lines 122-155).
\* ---------------------------------------------------------------------------
CategoryNames == [c \in 1..Len(propaganda_indicators) |-> propaganda_indicators[c].name]

\* detailed_matches: only the categories that matched get a key (line 136)
DetailedMatches(toks) ==
    LET found == [c \in 1..Len(propaganda_indicators) |->
                      FindIter(propaganda_indicators[c].alts, toks, 1)]
        hit   == {c \in 1..Len(propaganda_indicators) : found[c] # <<>>}
    IN  [name \in {CategoryNames[c] : c \in hit} |->
             found[CHOOSE c \in hit : CategoryNames[c] = name]]

\* the keys of detailed_matches in insertion order
MatchedCategories(dm) == SelectSeq(CategoryNames, LAMBDA name : name \in DOMAIN dm)

RECURSIVE TotalIndicators(_, _)
TotalIndicators(dm, names) ==
    IF names = <<>> THEN 0
    ELSE Len(dm[Head(names)]) + TotalIndicators(dm, Tail(names))

\* PatternScore without the cap at 100
PatternScoreUncapped(total_indicators, words) ==
    IF words > 0
    THEN FloatTrunc(FloatMulInt(FloatMulInt(FloatDiv(total_indicators, words), 100), 20))
    ELSE 0

\* lines 154-155: min(int((total_indicators / words) * 100 * 20), 100)
PatternScore(total_indicators, words) ==
    IF words > 0
    THEN Min(FloatTrunc(FloatMulInt(FloatMulInt(FloatDiv(total_indicators, words),
                                                100), 20)), 100)
    ELSE 0

PatternAnalysis(text_content) ==
    LET dm    == DetailedMatches(text_content)
        total == TotalIndicators(dm, MatchedCategories(dm))
        words == WordCount(text_content)
    IN  [detailed_matches |-> dm,
         total_indicators |-> total,
         words            |-> words,
         pattern_score    |-> PatternScore(total, words)]

\* ---------------------------------------------------------------------------
\* JSON values, as json.loads builds them.  JSON null is None.  An object
\* is a dict: keys holds its keys in the order of the text.
\* ---------------------------------------------------------------------------
Num(n)      == [t |-> "num", n |-> n]
Str(s)      == [t |-> "str", s |-> s]
Bool(b)     == [t |-> "bool", b |-> b]
List(items) == [t |-> "list", items |-> items]
Obj(keys, fields) == [t |-> "obj", keys |-> keys, fields |-> fields]
NaN         == [t |-> "nan"]
Infinity    == [t |-> "inf"]

\* Python truth value
Truthy(v) ==
    CASE v.t = "none" -> FALSE
      [] v.t = "num"  -> v.n # 0
      [] v.t = "str"  -> v.s # ""
      [] v.t = "bool" -> v.b
      [] v.t = "list" -> v.items # <<>>
      [] v.t = "obj"  -> v.keys # <<>>
      [] v.t \in {"nan", "inf"} -> TRUE

\* dict.get(key, default)
Get(obj, key, default) ==
    IF key \in DOMAIN obj.fields THEN obj.fields[key] ELSE default

\* ---------------------------------------------------------------------------
\* analyze_propaganda, second half: score fusion and the report
\* (lines 159-210).
\* ---------------------------------------------------------------------------
\* Fuse with the two weights exchanged
FuseSwapped(pattern_score, likelihood) ==
    FloatTrunc(FloatAdd(FloatMulInt(F06, pattern_score), FloatMulInt(F04, likelihood)))

\* line 164: int((pattern_score * 0.4) + (likelihood * 0.6)), likelihood >= 0
Fuse(pattern_score, likelihood) ==
    FloatTrunc(FloatAdd(FloatMulInt(F04, pattern_score), FloatMulInt(F06, likelihood)))

\* Unfused with a penalty for the missing AI result
UnfusedPenalised(pattern_score, raised) ==
    [final_score         |-> pattern_score \div 2,
     additional_analysis |-> List(<<>>),
     ai_correction       |-> None,
     raised              |-> raised]

\* lines 159, 167-173: the pattern score alone, no AI techniques, no AI
\* correction
Unfused(pattern_score, raised) ==
    [final_score         |-> pattern_score,
     additional_analysis |-> List(<<>>),
     ai_correction       |-> None,
     raised              |-> raised]

\* lines 159-173.  raised names the exception that leaves analyze_propaganda,
\* "" when there is none.
ScoreFusion(pattern_score, ai) ==
    IF ~Truthy(ai) THEN Unfused(pattern_score, "")
    ELSE IF ai.t # "obj" THEN Unfused(pattern_score, "")        \* AttributeError, caught
    ELSE LET lk == Get(ai, "propaganda_likelihood", Num(pattern_score))
         IN  CASE lk.t \in {"num", "bool"} ->
                    [final_score |->
                         Fuse(pattern_score,
                              IF lk.t = "num" THEN lk.n ELSE IF lk.b THEN 1 ELSE 0),
                     additional_analysis |-> Get(ai, "detected_techniques", List(<<>>)),
                     ai_correction       |-> Get(ai, "suggested_corrections", None),
                     raised              |-> ""]
               [] lk.t = "nan" -> Unfused(pattern_score, "ValueError")    \* int(nan)
               [] lk.t = "inf" -> Unfused(pattern_score, "OverflowError") \* int(inf)
               [] OTHER -> Unfused(pattern_score, "")                     \* TypeError, caught

FactualText ==
    "This article appears to be factual and well-balanced. The reporting is objective and supported by verifiable sources."
ModerateText(n) ==
    "This article shows some signs of potential bias. Found " \o ToString(n)
    \o " different types of propaganda techniques."
HighText(n, total) ==
    "High likelihood of biased content. Found " \o ToString(n)
    \o " different propaganda techniques with " \o ToString(total) \o " total instances."
ModerateCorrection ==
    Str("Consider consulting multiple sources for a more balanced perspective on this topic.")
HighCorrection ==
    Str("For accurate information on this topic, please consult established fact-checking websites and verified news sources.")

FactualBelow == 30
ModerateBelow == 70

\* AnalysisText with both band limits inclusive
AnalysisTextInclusive(final_score, n, total) ==
    IF final_score <= FactualBelow THEN FactualText
    ELSE IF final_score <= ModerateBelow THEN ModerateText(n)
    ELSE HighText(n, total)

\* lines 200-208: the analysis text by score band
AnalysisText(final_score, n, total) ==
    IF final_score < FactualBelow THEN FactualText
    ELSE IF final_score < ModerateBelow THEN ModerateText(n)
    ELSE HighText(n, total)

\* lines 200-208: the correction by score band
Correction(final_score, ai_correction) ==
    IF Truthy(ai_correction) THEN ai_correction
    ELSE IF final_score < FactualBelow THEN None
    ELSE IF final_score < ModerateBelow THEN ModerateCorrection
    ELSE HighCorrection

\* content.get(key, '')
Meta(content, key) == IF key \in DOMAIN content THEN content[key] ELSE ""

\* the characters of a string, as iterating over it yields them
Chars(s) == [i \in 1..Len(s) |-> SubSeq(s, i, i)]

\* lines 179-181: detected_indicators.extend(additional_analysis) raises
\* TypeError when additional_analysis is truthy and not iterable (a number,
\* true, NaN or Infinity)
ExtendRaises(additional) ==
    Truthy(additional) /\ additional.t \in {"num", "bool", "nan", "inf"}

\* what iterating over a JSON value yields: the items of a list, the
\* characters of a string, the keys of an object
Iterate(v) ==
    CASE v.t = "list" -> v.items
      [] v.t = "str"  -> Chars(v.s)
      [] v.t = "obj"  -> v.keys

\* lines 179-181
DetectedIndicators(dm, additional) ==
    MatchedCategories(dm)
    \o (IF Truthy(additional) /\ ~ExtendRaises(additional)
        THEN Iterate(additional)
        ELSE <<>>)

\* lines 157-210 after analyze_with_gemini has returned ai: the report, or
\* the exception that leaves analyze_propaganda
FinishAnalysis(content, sc, ai) ==
    LET fused    == ScoreFusion(sc.pattern_score, ai)
        detected == DetectedIndicators(sc.detailed_matches, fused.additional_analysis)
    IN  IF fused.raised # "" THEN [t |-> "raised", exception |-> fused.raised]
        ELSE IF ExtendRaises(fused.additional_analysis)
        THEN [t |-> "raised", exception |-> "TypeError"]
        ELSE [t |-> "report",
              metadata |-> [title      |-> Meta(content, "title"),
                            author     |-> Meta(content, "author"),
                            date       |-> Meta(content, "date"),
                            source     |-> Meta(content, "source"),
                            word_count |-> sc.words],
              propaganda_score    |-> fused.final_score,
              detailed_matches    |-> sc.detailed_matches,
              detected_techniques |-> detected,
              analysis   |-> AnalysisText(fused.final_score, Len(detected),
                                          sc.total_indicators),
              correction |-> Correction(fused.final_score, fused.ai_correction)]

\* ---------------------------------------------------------------------------
\* extract_article_content (lines 11-53).
\* ---------------------------------------------------------------------------
\* lines 18-24: the provided content, when it is not blank
ExtractDirect(content) ==
    LET stripped == Strip(content)
    IN  IF stripped # <<>>
        THEN [text   |-> stripped,
              source |-> "direct_input",
              length |-> CharLen(stripped)]
        ELSE None

DocGet(doc, key, default) == IF key \in DOMAIN doc THEN doc[key] ELSE default

\* lines 28-53: what the URL route returns for an answer of the collaborator
ExtractFromUrl(url, out) ==
    IF out.k = "doc"
    THEN [text   |-> DocGet(out.doc, "text", <<>>),
          title  |-> DocGet(out.doc, "title", ""),
          author |-> DocGet(out.doc, "author", ""),
          date   |-> DocGet(out.doc, "date", ""),
          source |-> url,
          length |-> CharLen(DocGet(out.doc, "text", <<>>))]
    ELSE None

\* ---------------------------------------------------------------------------
\* analyze_with_gemini (lines 55-100) once generate_content has answered:
\* json.loads accepts well-formed JSON only, everything else gives None.
\* ---------------------------------------------------------------------------
GeminiResult(reply) ==
    IF reply.k = "text" /\ reply.form = "json" THEN reply.value ELSE None

\* ---------------------------------------------------------------------------
\* Inputs.
\* ---------------------------------------------------------------------------
MaxCore == 2
MaxDocLen == 1

\* texts are a free core of at most MaxCore tokens followed by a body of
\* <<k, f>>: k times "shocking", then f filler words
BodyShapes == {<<0, 0>>, <<0, 28>>, <<0, 55>>, <<0, 124>>, <<0, 249>>, <<11, 239>>}

Cores(n) == UNION {[1..m -> Vocab] : m \in 0..n}

Contents == {core \o Repeat("shocking", b[1]) \o Repeat(Filler, b[2]) :
                core \in Cores(MaxCore), b \in BodyShapes}

Url == "http://example.org/article"

Requests ==
    {[t |-> "malformed"], None}
    \cup {[t |-> "obj", keys |-> K, url |-> Url, content |-> <<Filler>>] :
              K \in {{}, {"url"}, {"content"}}}
    \cup {[t |-> "obj", keys |-> {"url", "content"}, url |-> Url, content |-> c] :
              c \in Contents}

Docs ==
    {[text |-> x, title |-> "Title", author |-> "Author", date |-> "2024-01-01"] :
         x \in Cores(MaxDocLen)}
    \cup {[title |-> "Title"]}

FetchOutcomes ==
    {[k |-> "raise"], [k |-> "no_download"], [k |-> "no_extract"]}
    \cup {[k |-> "doc", doc |-> d] : d \in Docs}

Likelihoods == {0, 45, 48, 49, 50, 57, 96, 100}

Complete(likelihood, techniques, correction) ==
    Obj(<<"propaganda_likelihood", "detected_techniques", "overall_analysis",
          "suggested_corrections">>,
        [propaganda_likelihood |-> likelihood,
         detected_techniques   |-> techniques,
         overall_analysis      |-> Str("The text appeals to fear."),
         suggested_corrections |-> correction])

Without(obj, key) ==
    Obj(SelectSeq(obj.keys, LAMBDA k : k # key),
        [k \in DOMAIN obj.fields \ {key} |-> obj.fields[k]])

SomeTechniques == List(<<"Appeal to fear">>)
SomeCorrection == Str("Use neutral wording.")

AIValues ==
    {Complete(Num(a), SomeTechniques, SomeCorrection) : a \in Likelihoods}
    \cup {Complete(Num(a), SomeTechniques, Str("")) : a \in {0, 50, 100}}
    \cup {Complete(lk, SomeTechniques, SomeCorrection) :
              lk \in {Num(150), NaN, Infinity, Str("high"), None, Bool(TRUE)}}
    \cup {Complete(Num(45), tq, SomeCorrection) :
              tq \in {List(<<>>), Num(5), None, NaN, Infinity, Str("abc"),
                      Obj(<<"k">>, [k |-> Str("v")])}}
    \cup {Without(Complete(Num(45), SomeTechniques, SomeCorrection), key) :
              key \in {"propaganda_likelihood", "detected_techniques",
                       "overall_analysis", "suggested_corrections"}}
    \cup {Obj(<<"propaganda_likelihood">>, [propaganda_likelihood |-> Num(50)]),
          Obj(<<"x">>, [x |-> None])}
    \cup {None, Num(45), Num(0), Str("ok"), List(<<>>), List(<<"x">>), Bool(TRUE),
          Obj(<<>>, <<>>)}

\* near-JSON: what a repairing parser would recover from the text
NearValues == {Complete(Num(a), SomeTechniques, SomeCorrection) : a \in {45, 100}}

GeminiReplies ==
    {[k |-> "raise"], [k |-> "empty"],
     [k |-> "text", form |-> "garbage", value |-> None]}
    \cup {[k |-> "text", form |-> "json", value |-> v] : v \in AIValues}
    \cup {[k |-> "text", form |-> "near_json", value |-> v] : v \in NearValues}

\* ---------------------------------------------------------------------------
\* The request handler analyze_article (app.py lines 18-55).
\* ---------------------------------------------------------------------------
Http(status, body) == [status |-> status, body |-> body]
Error(message) == [t |-> "error", error |-> message]

Init ==
    /\ pc = "idle"
    /\ api_key \in BOOLEAN
    /\ request = None
    /\ fetch_result = None
    /\ article = None
    /\ scoring = None
    /\ gemini_reply = None
    /\ ai_analysis = None
    /\ response = None

\* app.py lines 46-55: the rest of analyze_propaganda, then jsonify or the
\* handler's except clause
Finish(content, sc, ai) ==
    /\ ai_analysis' = ai
    /\ response' = LET result == FinishAnalysis(content, sc, ai)
                   IN  IF result.t = "raised"
                       THEN Http(500, Error("Internal server error"))
                       ELSE Http(200, result)
    /\ pc' = "responded"

\* app.py line 46 up to the call of generate_content (utils.py lines 122-158,
\* 60-85); without an API key analyze_with_gemini returns None at once
StartAnalysis(content) ==
    LET sc == PatternAnalysis(content.text)
    IN  /\ article' = content
        /\ scoring' = sc
        /\ IF api_key
           THEN /\ pc' = "ai_wait"
                /\ UNCHANGED <<ai_analysis, response>>
           ELSE Finish(content, sc, None)

Fail(status, message) ==
    /\ response' = Http(status, Error(message))
    /\ pc' = "responded"
    /\ UNCHANGED <<article, scoring, ai_analysis>>

\* a POST /analyze arrives with body data: app.py lines 20-46 up to the first
\* call that waits for a collaborator
HandleRequest(data) ==
    /\ pc = "idle"
    /\ request' = data
    /\ IF data.t = "malformed"
       THEN Fail(500, "Internal server error")
       ELSE IF data.t = "none" \/ ~({"url", "content"} \subseteq data.keys)
       THEN Fail(400, "Missing required fields")
       ELSE LET direct == ExtractDirect(data.content)
            IN  IF direct # None
                THEN StartAnalysis(direct)
                ELSE /\ pc' = "fetch_wait"
                     /\ UNCHANGED <<article, scoring, ai_analysis, response>>
    /\ UNCHANGED <<api_key, fetch_result, gemini_reply>>

\* trafilatura.fetch_url / extract answer (utils.py lines 28-34)
FetchReply(out) ==
    /\ pc = "fetch_wait"
    /\ fetch_result' = out
    /\ pc' = "fetched"
    /\ UNCHANGED <<api_key, request, article, scoring, gemini_reply,
                   ai_analysis, response>>

\* utils.py lines 29-53, app.py lines 38-46
AfterFetch ==
    /\ pc = "fetched"
    /\ LET content == ExtractFromUrl(request.url, fetch_result)
       IN  IF content = None
           THEN Fail(400, "Failed to extract article content")
           ELSE StartAnalysis(content)
    /\ UNCHANGED <<api_key, request, fetch_result, gemini_reply>>

\* model.generate_content answers or raises (utils.py line 85)
GeminiReply(out) ==
    /\ pc = "ai_wait"
    /\ gemini_reply' = out
    /\ pc' = "ai_returned"
    /\ UNCHANGED <<api_key, request, fetch_result, article, scoring,
                   ai_analysis, response>>

\* utils.py lines 87-100 and 159-210, app.py lines 47-55
AfterGemini ==
    /\ pc = "ai_returned"
    /\ Finish(article, scoring, GeminiResult(gemini_reply))
    /\ UNCHANGED <<api_key, request, fetch_result, article, scoring, gemini_reply>>

\* the response is sent and the locals of the request are dropped
Respond ==
    /\ pc = "responded"
    /\ pc' = "idle"
    /\ request' = None
    /\ fetch_result' = None
    /\ article' = None
    /\ scoring' = None
    /\ gemini_reply' = None
    /\ ai_analysis' = None
    /\ response' = None
    /\ UNCHANGED api_key

Next ==
    \/ \E data \in Requests : HandleRequest(data)
    \/ \E out \in FetchOutcomes : FetchReply(out)
    \/ AfterFetch
    \/ \E out \in GeminiReplies : GeminiReply(out)
    \/ AfterGemini
    \/ Respond

Spec == Init /\ [][Next]_vars

\* the steps the handler takes by itself; a request arriving and a
\* collaborator answering are steps of the environment
Handler == AfterFetch \/ AfterGemini \/ Respond

\* ---------------------------------------------------------------------------
\* Properties.
\* ---------------------------------------------------------------------------
Reported == pc = "responded" /\ response.status = 200

Report == response.body

\* n / d rounded to the nearest integer, ties to even
RoundNearest(n, d) ==
    IF 2 * (n % d) < d THEN n \div d
    ELSE IF 2 * (n % d) > d THEN n \div d + 1
    ELSE n \div d + ((n \div d) % 2)

\* the AI result carries an integer propaganda_likelihood in 0..100
LikelihoodInRange ==
    /\ ai_analysis.t = "obj"
    /\ "propaganda_likelihood" \in DOMAIN ai_analysis.fields
    /\ ai_analysis.fields["propaganda_likelihood"].t = "num"
    /\ ai_analysis.fields["propaganda_likelihood"].n \in 0..100

Likelihood == ai_analysis.fields["propaganda_likelihood"].n

\* C1 as stated: with an AI likelihood a in 0..100 the reported score is
\* 0.4 * pattern_score + 0.6 * a rounded to the nearest integer.
C1_FusedScoreRounded ==
    Reported /\ LikelihoodInRange =>
        Report.propaganda_score
            = RoundNearest(4 * scoring.pattern_score + 6 * Likelihood, 10)

\* C1 amended: with an AI likelihood a in 0..100 the reported score is
\* 0.4 * pattern_score + 0.6 * a truncated, not rounded: the floor of the
\* exact sum, or one less where the sum is a whole number and the
\* floating-point sum falls just short of it.
C1_FusedScoreTruncated ==
    Reported /\ LikelihoodInRange =>
        LET n == 4 * scoring.pattern_score + 6 * Likelihood
        IN  \/ Report.propaganda_score = n \div 10
            \/ n % 10 = 0 /\ Report.propaganda_score = n \div 10 - 1

\* C1 witness: pattern score 16 and likelihood 96 are fused to 63, the exact
\* sum being 64.
C1_Witness ==
    /\ Reported
    /\ LikelihoodInRange
    /\ scoring.pattern_score = 16
    /\ Likelihood = 96
    /\ Report.propaganda_score = 63

\* C2 as stated: the pattern score is total / words * 2000 rounded to the
\* nearest integer and capped at 100, and 0 for a text without words.
C2_PatternScoreRounded ==
    scoring # None =>
        scoring.pattern_score
            = IF scoring.words > 0
              THEN Min(RoundNearest(2000 * scoring.total_indicators, scoring.words), 100)
              ELSE 0

\* C2 amended: the pattern score is total / words * 2000 truncated, not
\* rounded, and capped at 100 (the floor of the exact quotient, or one less
\* where the quotient is a whole number and the floating-point product
\* falls just short of it); it is 0 for a text without words or without
\* matches, and words counts the whitespace-delimited tokens.
C2_PatternScoreTruncated ==
    scoring # None =>
        LET n == 2000 * scoring.total_indicators
            w == scoring.words
        IN  /\ w = Cardinality({j \in 1..Len(article.text) : article.text[j] # WS})
            /\ w = 0 => scoring.pattern_score = 0
            /\ w > 0 =>
                  \/ scoring.pattern_score = Min(n \div w, 100)
                  \/ /\ n > 0
                     /\ n % w = 0
                     /\ scoring.pattern_score = Min(n \div w - 1, 100)

\* C2 witness: one match in 30 words scores 66, where rounding would give 67.
C2_Witness ==
    /\ scoring # None
    /\ scoring.total_indicators = 1
    /\ scoring.words = 30
    /\ scoring.pattern_score = 66

\* C3: when analyze_with_gemini returned nothing, the reported score is the
\* pattern score.
C3_AbsentAIKeepsPatternScore ==
    Reported /\ ai_analysis = None =>
        Report.propaganda_score = scoring.pattern_score

\* C3 witness: the AI call raised and a report with a positive pattern
\* score was returned.
C3_Witness ==
    /\ Reported
    /\ gemini_reply = [k |-> "raise"]
    /\ ai_analysis = None
    /\ scoring.pattern_score > 0
    /\ Report.propaganda_score = scoring.pattern_score

\* C4: every reported score lies in 0..100.
C4_ScoreInRange == Reported => Report.propaganda_score \in 0..100

\* C5: once the content is normalized, no answer of the AI collaborator
\* makes the request end in an error response.
C5_AINeverFailsRequest ==
    pc = "responded" /\ article # None => response.status = 200

\* C6: the normalizer never returns a record whose text is empty.
C6_ArticleTextNonEmpty == article # None => article.text # <<>>

\* C7: a near-JSON answer of the AI collaborator is recovered by a second,
\* tolerant parse and gives a present AI result.
C7_NearJsonRecovered ==
    pc = "responded" /\ gemini_reply \in {r \in GeminiReplies : r.k = "text" /\ r.form = "near_json"}
        => ai_analysis = gemini_reply.value

IsComplete(v) ==
    /\ v.t = "obj"
    /\ DOMAIN v.fields = {"propaganda_likelihood", "detected_techniques",
                          "overall_analysis", "suggested_corrections"}
    /\ v.fields["propaganda_likelihood"].t = "num"
    /\ v.fields["propaganda_likelihood"].n \in 0..100
    /\ v.fields["detected_techniques"].t = "list"
    /\ v.fields["overall_analysis"].t = "str"
    /\ v.fields["suggested_corrections"].t = "str"

\* lines 161-166 ran to the end: the AI result is truthy, has .get, and its
\* likelihood (pattern_score when the key is missing) is a number, so the
\* score, the techniques and the correction of the report come from it
AIUsed ==
    /\ Truthy(ai_analysis)
    /\ ai_analysis.t = "obj"
    /\ Get(ai_analysis, "propaganda_likelihood", Num(scoring.pattern_score)).t
           \in {"num", "bool"}

\* C8: the AI result that reaches score fusion and report assembly is
\* complete, never half-filled.
C8_NoPartialAIResult == Reported /\ AIUsed => IsComplete(ai_analysis)

\* the fixed correction of the band of a score
Fallback(score) ==
    IF score < 30 THEN None
    ELSE IF score < 70 THEN ModerateCorrection
    ELSE HighCorrection

\* the summary of the band of the reported score
BandOK ==
    LET score == Report.propaganda_score
        n     == Len(Report.detected_techniques)
    IN  /\ score < 30 => Report.analysis = FactualText
        /\ score >= 30 /\ score < 70 => Report.analysis = ModerateText(n)
        /\ score >= 70 => Report.analysis = HighText(n, scoring.total_indicators)

\* C9 as stated: the band follows the score, and the correction is the AI's
\* suggested correction whenever an AI result is present, the fixed
\* correction of the band otherwise.  Stated for the AI results of the data
\* model, which are absent or complete.
C9_CorrectionWheneverAIPresent ==
    Reported /\ (ai_analysis = None \/ IsComplete(ai_analysis)) =>
        /\ BandOK
        /\ Report.correction =
              IF ai_analysis # None
              THEN ai_analysis.fields["suggested_corrections"]
              ELSE Fallback(Report.propaganda_score)

\* the suggested correction of an AI result that was fused
FusedSuggestion ==
    IF AIUsed
    THEN Get(ai_analysis, "suggested_corrections", None)
    ELSE None

\* C9 amended: the band follows the score (below 30 factual, 30 to 69
\* moderate, 70 and above high), and the correction is the AI's suggested
\* correction whenever the AI result was fused and its suggestion is not
\* empty; otherwise it is absent in the factual band and the fixed text of
\* the band in the other two.
C9_BandAndCorrection ==
    Reported =>
        /\ BandOK
        /\ Report.correction =
              IF Truthy(FusedSuggestion)
              THEN FusedSuggestion
              ELSE Fallback(Report.propaganda_score)

\* C9 witness: a complete AI result with an empty suggestion and a fused
\* score of exactly 30 gets the moderate summary and the fixed correction.
C9_Witness ==
    /\ Reported
    /\ IsComplete(ai_analysis)
    /\ ai_analysis.fields["suggested_corrections"] = Str("")
    /\ Report.propaganda_score = 30
    /\ Report.analysis = ModerateText(Len(Report.detected_techniques))
    /\ Report.correction = ModerateCorrection

\* C10: an analysis that waits for the AI collaborator returns a report even
\* if the collaborator never answers, the call being bounded by a timeout:
\* while the handler waits in the AI call it has a step of its own to go on
\* with.
C10_AIWaitBounded == pc = "ai_wait" => ENABLED Handler

====
